---- MODULE Spec2Model ----
(***************************************************************************)
(* scan-locks.js: extraction of occurrences of a fixed set of packages     *)
(* from package-lock.json, yarn.lock (v1) and package.json files, followed *)
(* by a sort, a deduplication and a report.                                *)
(*                                                                         *)
(* A JavaScript string is a sequence of one-character strings, so that     *)
(* split, replace, slice, lastIndexOf and template concatenation are       *)
(* computed character by character.  A decoded JSON value is a record      *)
(* tagged by its type: [t |-> "undef"], [t |-> "null"], [t |-> "bool", b], *)
(* [t |-> "num", n], [t |-> "str", s], [t |-> "obj", kv] where kv is the   *)
(* sequence of [k, v] entries in Object.keys order.                        *)
(***************************************************************************)
EXTENDS Integers, Sequences, FiniteSets, TLC

VARIABLES files, idx, rows, skipped, out, pc

vars == <<files, idx, rows, skipped, out, pc>>

(***************************************************************************)
(* Bounds of the model.                                                    *)
(***************************************************************************)
MaxFiles == 2

MaxPkgEntries == 2

MaxNodes == 3

MaxSelectors == 2

MaxRows == 3

(***************************************************************************)
(* String primitives of the JavaScript runtime used by the program.        *)
(***************************************************************************)
Whitespace == {" ", "\t", "\n", "\r"}

Drop(s, n) == SubSeq(s, n + 1, Len(s))

Slice(s, from, to) == SubSeq(s, from + 1, to)

StartsWith(s, p) == Len(s) >= Len(p) /\ SubSeq(s, 1, Len(p)) = p

EndsWith(s, p) == Len(s) >= Len(p) /\ SubSeq(s, Len(s) - Len(p) + 1, Len(s)) = p

\* 1-based position of the first occurrence of the non-empty sep in s, 0 if none
FirstIndexOf(s, sep) ==
  LET hits == {i \in 1..(Len(s) - Len(sep) + 1) : SubSeq(s, i, i + Len(sep) - 1) = sep}
  IN  IF hits = {} THEN 0 ELSE CHOOSE i \in hits : \A j \in hits : i <= j

\* String.prototype.lastIndexOf(c): 0-based, -1 when c does not occur
LastIndexOf(s, c) ==
  LET hits == {i \in 1..Len(s) : s[i] = c}
  IN  IF hits = {} THEN -1 ELSE (CHOOSE i \in hits : \A j \in hits : i >= j) - 1

RECURSIVE Split(_, _)
\* String.prototype.split(sep) for a non-empty literal separator
Split(s, sep) ==
  LET i == FirstIndexOf(s, sep)
  IN  IF i = 0 THEN <<s>>
      ELSE <<SubSeq(s, 1, i - 1)>> \o Split(Drop(s, i + Len(sep) - 1), sep)

\* length of the longest prefix of s made of characters of the set cs
RunLength(s, cs) ==
  LET stops == {i \in 1..Len(s) : s[i] \notin cs}
  IN  IF stops = {} THEN Len(s) ELSE (CHOOSE i \in stops : \A j \in stops : i <= j) - 1

RECURSIVE SplitBlankLines(_)
\* String.prototype.split(/\n{2,}/)
SplitBlankLines(s) ==
  LET i == FirstIndexOf(s, <<"\n", "\n">>)
  IN  IF i = 0 THEN <<s>>
      ELSE LET rest == Drop(s, i - 1)
               run  == RunLength(rest, {"\n"})
           IN  <<SubSeq(s, 1, i - 1)>> \o SplitBlankLines(Drop(rest, run))

RECURSIVE SplitCommaSpace(_)
\* String.prototype.split(/,\s*/)
SplitCommaSpace(s) ==
  LET i == FirstIndexOf(s, <<",">>)
  IN  IF i = 0 THEN <<s>>
      ELSE LET rest == Drop(s, i)
               run  == RunLength(rest, Whitespace)
           IN  <<SubSeq(s, 1, i - 1)>> \o SplitCommaSpace(Drop(rest, run))

\* String.prototype.trim()
Trim(s) ==
  LET keep == {i \in 1..Len(s) : s[i] \notin Whitespace}
  IN  IF keep = {} THEN <<>>
      ELSE SubSeq(s, CHOOSE i \in keep : \A j \in keep : i <= j,
                     CHOOSE i \in keep : \A j \in keep : i >= j)

\* Array.prototype.filter(Boolean) on an array of strings: drops the empty ones
FilterNonEmpty(ss) == SelectSeq(ss, LAMBDA x : x # <<>>)

\* ss.map(l => l.trim())
TrimAll(ss) == [i \in 1..Len(ss) |-> Trim(ss[i])]

(***************************************************************************)
(* Decoded JSON values.                                                    *)
(***************************************************************************)
Undef == [t |-> "undef"]

Null == [t |-> "null"]

Bool(b) == [t |-> "bool", b |-> b]

Num(n) == [t |-> "num", n |-> n]

Str(s) == [t |-> "str", s |-> s]

Obj(kv) == [t |-> "obj", kv |-> kv]

KV(k, v) == [k |-> k, v |-> v]

\* ToBoolean
Truthy(v) ==
  CASE v.t = "undef" -> FALSE
    [] v.t = "null"  -> FALSE
    [] v.t = "bool"  -> v.b
    [] v.t = "num"   -> v.n # 0
    [] v.t = "str"   -> v.s # <<>>
    [] v.t = "obj"   -> TRUE

\* typeof v === 'object'
TypeofObject(v) == v.t \in {"obj", "null"}

\* property read v[k] on a value that is neither null nor undefined
Get(v, k) ==
  IF v.t = "obj" /\ \E i \in 1..Len(v.kv) : v.kv[i].k = k
  THEN v.kv[CHOOSE i \in 1..Len(v.kv) : v.kv[i].k = k].v
  ELSE Undef

\* Object.entries(v): own enumerable entries; a number or a boolean has none
Entries(v) == IF v.t = "obj" THEN v.kv ELSE <<>>

\* v === true
IsTrue(v) == v.t = "bool" /\ v.b

\* v || '' for a version read from a lockfile
OrEmpty(v) == IF Truthy(v) THEN v.s ELSE <<>>

(***************************************************************************)
(* Program constants.                                                      *)
(***************************************************************************)
TARGETS ==
  { <<"e","s","l","i","n","t","-","c","o","n","f","i","g","-","p","r","e","t","t","i","e","r">>,
    <<"e","s","l","i","n","t","-","p","l","u","g","i","n","-","p","r","e","t","t","i","e","r">>,
    <<"s","y","n","c","k","i","t">>,
    <<"@","p","k","g","r","/","c","o","r","e">>,
    <<"n","a","p","i","-","p","o","s","t","i","n","s","t","a","l","l">>,
    <<"g","o","t","-","f","e","t","c","h">>,
    <<"i","s">> }

LOCK_FILENAMES ==
  << <<"p","a","c","k","a","g","e","-","l","o","c","k",".","j","s","o","n">>,
     <<"p","a","c","k","a","g","e",".","l","o","c","k",".","j","s","o","n">>,
     <<"y","a","r","n",".","l","o","c","k">>,
     <<"p","a","c","k","a","g","e",".","j","s","o","n">> >>

NPM_LOCK == <<"n","p","m","-","l","o","c","k">>

YARN_LOCK == <<"y","a","r","n","-","l","o","c","k">>

PACKAGE_JSON == <<"p","a","c","k","a","g","e","-","j","s","o","n">>

Row(package, version, dev, optional, source, lockfilePath) ==
  [package |-> package, version |-> version, dev |-> dev, optional |-> optional,
   source |-> source, lockfilePath |-> lockfilePath]

(***************************************************************************)
(* extractFromNpmLock                                                      *)
(***************************************************************************)
\* NpmEntryName taking the first piece of the key instead of the last
NpmEntryName_FirstSeg(pkgPath, info) ==
  LET declared == Get(info, <<"n","a","m","e">>)
      segs     == FilterNonEmpty(Split(pkgPath, <<"n","o","d","e","_","m","o","d","u","l","e","s","/">>))
      first    == segs[1]
  IN  IF Truthy(declared) THEN declared
      ELSE IF Len(segs) > 0
           THEN Str(IF EndsWith(first, <<"/">>) THEN SubSeq(first, 1, Len(first) - 1) ELSE first)
           ELSE declared

\* the name of one entry of `packages`: its declared name, else derived from the key
NpmEntryName(pkgPath, info) ==
  LET declared == Get(info, <<"n","a","m","e">>)
      segs     == FilterNonEmpty(Split(pkgPath, <<"n","o","d","e","_","m","o","d","u","l","e","s","/">>))
      last     == segs[Len(segs)]
  IN  IF Truthy(declared) THEN declared
      ELSE IF Len(segs) > 0
           THEN Str(IF EndsWith(last, <<"/">>) THEN SubSeq(last, 1, Len(last) - 1) ELSE last)
           ELSE declared

\* info = lockJson.packages[pkgPath] || {}
NpmEntryInfo(v) == IF Truthy(v) THEN v ELSE Obj(<<>>)

NpmRow(name, meta, lockfilePath) ==
  Row(name, OrEmpty(Get(meta, <<"v","e","r","s","i","o","n">>)), IsTrue(Get(meta, <<"d","e","v">>)),
      IsTrue(Get(meta, <<"o","p","t","i","o","n","a","l">>)), NPM_LOCK, lockfilePath)

RECURSIVE NpmPackagesLoop(_, _, _)
\* the for loop over Object.keys(lockJson.packages), from entry i on
NpmPackagesLoop(entries, i, lockfilePath) ==
  IF i > Len(entries) THEN <<>>
  ELSE LET info == NpmEntryInfo(entries[i].v)
           name == NpmEntryName(entries[i].k, info)
           here == IF Truthy(name) /\ name.t = "str" /\ name.s \in TARGETS
                   THEN <<NpmRow(name.s, info, lockfilePath)>>
                   ELSE <<>>
       IN  here \o NpmPackagesLoop(entries, i + 1, lockfilePath)

RECURSIVE NpmDepsEntries_NoSkip(_, _, _, _)
\* NpmDepsEntries without `if (!meta) continue`, falsy metadata read as {}
NpmDepsEntries_NoSkip(entries, i, lockfilePath, acc) ==
  IF i > Len(entries) THEN acc
  ELSE LET name == entries[i].k
           meta == NpmEntryInfo(entries[i].v)
       IN  NpmDepsEntries_NoSkip(entries, i + 1, lockfilePath,
             [results |-> acc.results \o
                            (IF name \in TARGETS
                             THEN <<NpmRow(name, meta, lockfilePath)>> ELSE <<>>),
              pushed  |-> acc.pushed \o
                            (IF Truthy(Get(meta, <<"d","e","p","e","n","d","e","n","c","i","e","s">>))
                             THEN <<Get(meta, <<"d","e","p","e","n","d","e","n","c","i","e","s">>)>> ELSE <<>>)])

RECURSIVE NpmDepsEntries(_, _, _, _)
\* the for loop over Object.entries(deps), from entry i on: the records it pushes
\* and the nested mappings it pushes on the stack, in order
NpmDepsEntries(entries, i, lockfilePath, acc) ==
  IF i > Len(entries) THEN acc
  ELSE LET name == entries[i].k
           meta == entries[i].v
       IN  IF ~Truthy(meta) THEN NpmDepsEntries(entries, i + 1, lockfilePath, acc)
           ELSE NpmDepsEntries(entries, i + 1, lockfilePath,
                  [results |-> acc.results \o
                                 (IF name \in TARGETS
                                  THEN <<NpmRow(name, meta, lockfilePath)>> ELSE <<>>),
                   pushed  |-> acc.pushed \o
                                 (IF Truthy(Get(meta, <<"d","e","p","e","n","d","e","n","c","i","e","s">>))
                                  THEN <<Get(meta, <<"d","e","p","e","n","d","e","n","c","i","e","s">>)>> ELSE <<>>)])

\* NpmDepsWhile that never pushes a nested mapping: the top level only
NpmDepsWhile_TopOnly(stack, results, lockfilePath) ==
  IF Len(stack) = 0 THEN results
  ELSE results \o NpmDepsEntries(Entries(stack[Len(stack)]), 1, lockfilePath,
                                 [results |-> <<>>, pushed |-> <<>>]).results

RECURSIVE NpmDepsWhile(_, _, _)
\* while (stack.length) { const deps = stack.pop(); ... }
NpmDepsWhile(stack, results, lockfilePath) ==
  IF Len(stack) = 0 THEN results
  ELSE LET deps == stack[Len(stack)]
           step == NpmDepsEntries(Entries(deps), 1, lockfilePath,
                                  [results |-> <<>>, pushed |-> <<>>])
       IN  NpmDepsWhile(SubSeq(stack, 1, Len(stack) - 1) \o step.pushed,
                        results \o step.results, lockfilePath)

extractFromNpmLock(lockJson, lockfilePath) ==
  LET packages     == Get(lockJson, <<"p","a","c","k","a","g","e","s">>)
      dependencies == Get(lockJson, <<"d","e","p","e","n","d","e","n","c","i","e","s">>)
      v2 == IF Truthy(lockJson) /\ Truthy(packages) /\ TypeofObject(packages)
            THEN NpmPackagesLoop(Entries(packages), 1, lockfilePath)
            ELSE <<>>
      v1 == IF Truthy(lockJson) /\ Truthy(dependencies) /\ TypeofObject(dependencies)
            THEN NpmDepsWhile(<<dependencies>>, <<>>, lockfilePath)
            ELSE <<>>
  IN  v2 \o v1

(***************************************************************************)
(* extractFromYarnLockV1 and selectorToPkgName                             *)
(***************************************************************************)
\* s.replace(/^"+|"+$/g, '')
StripQuotes(s) ==
  LET lead == RunLength(s, {"\""})
      rest == Drop(s, lead)
      keep == {i \in 1..Len(rest) : rest[i] # "\""}
  IN  IF keep = {} THEN <<>>
      ELSE SubSeq(rest, 1, CHOOSE i \in keep : \A j \in keep : i >= j)

\* selectorToPkgName with indexOf in place of lastIndexOf
selectorToPkgName_FirstAt(selector) ==
  LET s  == StripQuotes(selector)
      at == FirstIndexOf(s, <<"@">>) - 1
  IN  IF at <= 0 THEN Null ELSE Str(Slice(s, 0, at))

\* the package name of a selector as a JSON value: null when the selector is invalid
selectorToPkgName(selector) ==
  LET s  == StripQuotes(selector)
      at == LastIndexOf(s, "@")
  IN  IF at <= 0 THEN Null ELSE Str(Slice(s, 0, at))

\* header.replace(/^"/, '').replace(/":?$/, ':').replace(/:$/, '').split(/,\s*/)
HeaderSelectors(header) ==
  LET a == IF StartsWith(header, <<"\"">>) THEN Drop(header, 1) ELSE header
      b == IF EndsWith(a, <<"\"", ":">>) THEN SubSeq(a, 1, Len(a) - 2) \o <<":">>
           ELSE IF EndsWith(a, <<"\"">>) THEN SubSeq(a, 1, Len(a) - 1) \o <<":">>
           ELSE a
      c == IF EndsWith(b, <<":">>) THEN SubSeq(b, 1, Len(b) - 1) ELSE b
  IN  SplitCommaSpace(c)

\* versionLine.match(/^version\s+"([^"]+)"/): the captured text, '' when no match
VersionMatch(line) ==
  LET afterWord  == Drop(line, 7)
      spaces     == RunLength(afterWord, Whitespace)
      afterSpace == Drop(afterWord, spaces)
      body       == Drop(afterSpace, 1)
      n          == RunLength(body, {c \in {body[i] : i \in 1..Len(body)} : c # "\""})
  IN  IF /\ StartsWith(line, <<"v","e","r","s","i","o","n">>)
         /\ spaces >= 1
         /\ StartsWith(afterSpace, <<"\"">>)
         /\ n >= 1
         /\ n < Len(body)
      THEN SubSeq(body, 1, n)
      ELSE <<>>

\* lines.find(l => l.startsWith('version ')) and the version it carries
BlockVersion(lines) ==
  LET hits == {i \in 1..Len(lines) : StartsWith(lines[i], <<"v","e","r","s","i","o","n"," ">>)}
  IN  IF hits = {} THEN <<>>
      ELSE VersionMatch(lines[CHOOSE i \in hits : \A j \in hits : i <= j])

RECURSIVE YarnSelectorsLoop(_, _, _, _)
\* the for loop over headerSelectors, from selector i on
YarnSelectorsLoop(sels, i, version, lockfilePath) ==
  IF i > Len(sels) THEN <<>>
  ELSE LET name == selectorToPkgName(sels[i])
           here == IF Truthy(name) /\ name.s \in TARGETS
                   THEN <<Row(name.s, version, FALSE, FALSE, YARN_LOCK, lockfilePath)>>
                   ELSE <<>>
       IN  here \o YarnSelectorsLoop(sels, i + 1, version, lockfilePath)

\* the body of the for loop over blocks, for one block
YarnBlock(blockRaw, lockfilePath) ==
  LET block  == Trim(blockRaw)
      lines  == TrimAll(Split(block, <<"\n">>))
      header == lines[1]
  IN  IF block = <<>> THEN <<>>
      ELSE IF header = <<>> \/ StartsWith(header, <<"#">>) THEN <<>>
      ELSE YarnSelectorsLoop(HeaderSelectors(header), 1, BlockVersion(lines), lockfilePath)

RECURSIVE YarnBlocksLoop(_, _, _)
YarnBlocksLoop(blocks, i, lockfilePath) ==
  IF i > Len(blocks) THEN <<>>
  ELSE YarnBlock(blocks[i], lockfilePath) \o YarnBlocksLoop(blocks, i + 1, lockfilePath)

extractFromYarnLockV1(text, lockfilePath) ==
  YarnBlocksLoop(SplitBlankLines(text), 1, lockfilePath)

(***************************************************************************)
(* extractFromPackageJson                                                  *)
(***************************************************************************)
\* String(range || '')
RangeToString(range) ==
  IF ~Truthy(range) THEN <<>>
  ELSE CASE range.t = "str"  -> range.s
         [] range.t = "bool" -> <<"t","r","u","e">>
         [] range.t = "num"  -> <<"0", "1", "2", "3", "4", "5", "6", "7", "8", "9">>[range.n + 1]
         [] range.t = "obj"  -> <<"[","o","b","j","e","c","t"," ","O","b","j","e","c","t","]">>

buckets ==
  << [field |-> <<"d","e","p","e","n","d","e","n","c","i","e","s">>,         isDev |-> FALSE, isOpt |-> FALSE],
     [field |-> <<"d","e","v","D","e","p","e","n","d","e","n","c","i","e","s">>,      isDev |-> TRUE,  isOpt |-> FALSE],
     [field |-> <<"o","p","t","i","o","n","a","l","D","e","p","e","n","d","e","n","c","i","e","s">>, isDev |-> FALSE, isOpt |-> TRUE] >>

RECURSIVE PkgDepsLoop_NoFilter(_, _, _, _)
\* PkgDepsLoop without the TARGETS.has(name) test
PkgDepsLoop_NoFilter(entries, i, bucket, lockfilePath) ==
  IF i > Len(entries) THEN <<>>
  ELSE <<Row(entries[i].k, RangeToString(entries[i].v), bucket.isDev,
             bucket.isOpt, PACKAGE_JSON, lockfilePath)>>
         \o PkgDepsLoop_NoFilter(entries, i + 1, bucket, lockfilePath)

RECURSIVE PkgDepsLoop(_, _, _, _)
\* the for loop over Object.entries(deps), from entry i on
PkgDepsLoop(entries, i, bucket, lockfilePath) ==
  IF i > Len(entries) THEN <<>>
  ELSE LET here == IF entries[i].k \in TARGETS
                   THEN <<Row(entries[i].k, RangeToString(entries[i].v), bucket.isDev,
                              bucket.isOpt, PACKAGE_JSON, lockfilePath)>>
                   ELSE <<>>
       IN  here \o PkgDepsLoop(entries, i + 1, bucket, lockfilePath)

\* the body of the for loop over buckets; pkgJson?.[field] is undefined for null
PkgBucket(pkgJson, bucket, lockfilePath) ==
  LET deps == IF pkgJson.t \in {"null", "undef"} THEN Undef ELSE Get(pkgJson, bucket.field)
  IN  IF ~Truthy(deps) \/ ~TypeofObject(deps) THEN <<>>
      ELSE PkgDepsLoop(Entries(deps), 1, bucket, lockfilePath)

extractFromPackageJson(pkgJson, lockfilePath) ==
  PkgBucket(pkgJson, buckets[1], lockfilePath)
    \o PkgBucket(pkgJson, buckets[2], lockfilePath)
    \o PkgBucket(pkgJson, buckets[3], lockfilePath)

(***************************************************************************)
(* The aggregation of main: sort, then dedupeRows, then printMarkdownTable *)
(***************************************************************************)
\* the characters of the model in the order of the default collation, by
\* which String.prototype.localeCompare compares
CollationOrder ==
  << " ", "_", "-", ",", ";", ":", "!", "?", ".", "'", "\"", "(", ")", "[", "]", "{", "}",
     "@", "*", "/", "\\", "&", "#", "%", "^", "+", "<", "=", ">", "|", "~", "$",
     "0", "1", "2", "3", "4", "5", "6", "7", "8", "9",
     "a", "b", "c", "d", "e", "f", "g", "h", "i", "j", "k", "l", "m",
     "n", "o", "p", "q", "r", "s", "t", "u", "v", "w", "x", "y", "z" >>

CollationWeight(c) == CHOOSE i \in 1..Len(CollationOrder) : CollationOrder[i] = c

RECURSIVE localeCompare(_, _)
\* a.localeCompare(b): negative, zero or positive
localeCompare(a, b) ==
  IF a = <<>> /\ b = <<>> THEN 0
  ELSE IF a = <<>> THEN -1
  ELSE IF b = <<>> THEN 1
  ELSE IF CollationWeight(a[1]) < CollationWeight(b[1]) THEN -1
  ELSE IF CollationWeight(a[1]) > CollationWeight(b[1]) THEN 1
  ELSE localeCompare(Tail(a), Tail(b))

\* compareRows without the tie-break on the path
compareRows_PackageOnly(a, b) == localeCompare(a.package, b.package)

\* compareRows with its operands exchanged
compareRows_Reversed(a, b) ==
  IF a.package = b.package
  THEN localeCompare(b.lockfilePath, a.lockfilePath)
  ELSE localeCompare(b.package, a.package)

\* the comparator handed to rows.sort
compareRows(a, b) ==
  IF a.package = b.package
  THEN localeCompare(a.lockfilePath, b.lockfilePath)
  ELSE localeCompare(a.package, b.package)

\* one insertion of the stable sort: r goes after every element not greater than it
InsertRow(sorted, r) ==
  LET after == {i \in 1..Len(sorted) : compareRows(sorted[i], r) <= 0}
      n     == IF after = {} THEN 0 ELSE CHOOSE i \in after : \A j \in after : i >= j
  IN  SubSeq(sorted, 1, n) \o <<r>> \o SubSeq(sorted, n + 1, Len(sorted))

RECURSIVE SortFrom(_, _, _)
SortFrom(rs, i, sorted) ==
  IF i > Len(rs) THEN sorted ELSE SortFrom(rs, i + 1, InsertRow(sorted, rs[i]))

\* Array.prototype.sort with compareRows: a stable sort
sortRows(rs) == SortFrom(rs, 1, <<>>)

\* dedupeKey with the dev and optional flags added to the key
dedupeKey_WithFlags(r) ==
  r.lockfilePath \o <<":",":">> \o r.package \o <<":",":">> \o r.version \o <<":",":">> \o r.source
    \o <<":",":">> \o (IF r.dev THEN <<"t","r","u","e">> ELSE <<"f","a","l","s","e">>)
    \o <<":",":">> \o (IF r.optional THEN <<"t","r","u","e">> ELSE <<"f","a","l","s","e">>)

\* `${r.lockfilePath}::${r.package}::${r.version}::${r.source}`
dedupeKey(r) ==
  r.lockfilePath \o <<":",":">> \o r.package \o <<":",":">> \o r.version \o <<":",":">> \o r.source

RECURSIVE DedupeLoop(_, _, _, _)
\* the for loop of dedupeRows, from row i on
DedupeLoop(rs, i, seen, kept) ==
  IF i > Len(rs) THEN kept
  ELSE IF dedupeKey(rs[i]) \in seen THEN DedupeLoop(rs, i + 1, seen, kept)
  ELSE DedupeLoop(rs, i + 1, seen \cup {dedupeKey(rs[i])}, Append(kept, rs[i]))

dedupeRows(rs) == DedupeLoop(rs, 1, {}, <<>>)

(***************************************************************************)
(* File contents as the runtime hands them to main.                        *)
(***************************************************************************)
\* readFileSync throws
RawUnreadable == [kind |-> "unreadable"]

\* text that JSON.parse rejects
RawGarbage == [kind |-> "garbage"]

\* text that JSON.parse decodes to the value v
RawJson(v) == [kind |-> "json", value |-> v]

\* the text of a yarn.lock
RawText(text) == [kind |-> "text", text |-> text]

File(path, raw) == [path |-> path, raw |-> raw]

\* path.join(dir, de.name)
PathJoin(dir, name) == dir \o <<"/">> \o name

IsNpmLockPath(filePath) ==
  EndsWith(filePath, LOCK_FILENAMES[1]) \/ EndsWith(filePath, LOCK_FILENAMES[2])

IsYarnLockPath(filePath) == ~IsNpmLockPath(filePath) /\ EndsWith(filePath, LOCK_FILENAMES[3])

IsPackageJsonPath(filePath) ==
  ~IsNpmLockPath(filePath) /\ ~IsYarnLockPath(filePath) /\ EndsWith(filePath, LOCK_FILENAMES[4])

\* fs.readFileSync followed by JSON.parse returns
JsonReadable(raw) == raw.kind = "json"

\* fs.readFileSync of a yarn.lock returns
TextReadable(raw) == raw.kind = "text"

\* the try block of main's loop throws for this file
Throws(f) ==
  \/ (IsNpmLockPath(f.path) \/ IsPackageJsonPath(f.path)) /\ ~JsonReadable(f.raw)
  \/ IsYarnLockPath(f.path) /\ ~TextReadable(f.raw)

(***************************************************************************)
(* main: the loop over the candidate files, then the report.               *)
(***************************************************************************)
\* the rows after one iteration that parsed its file
Pushed(rs, extracted) == rs \o extracted

\* the loop position after one iteration, parsed or skipped
NextFile(i) == i + 1

ReadNpmLock ==
  /\ pc = "scan"
  /\ idx <= Len(files)
  /\ IsNpmLockPath(files[idx].path)
  /\ JsonReadable(files[idx].raw)
  /\ rows' = Pushed(rows, extractFromNpmLock(files[idx].raw.value, files[idx].path))
  /\ idx' = NextFile(idx)
  /\ UNCHANGED <<files, skipped, out, pc>>

ReadYarnLock ==
  /\ pc = "scan"
  /\ idx <= Len(files)
  /\ IsYarnLockPath(files[idx].path)
  /\ TextReadable(files[idx].raw)
  /\ rows' = Pushed(rows, extractFromYarnLockV1(files[idx].raw.text, files[idx].path))
  /\ idx' = NextFile(idx)
  /\ UNCHANGED <<files, skipped, out, pc>>

ReadPackageJson ==
  /\ pc = "scan"
  /\ idx <= Len(files)
  /\ IsPackageJsonPath(files[idx].path)
  /\ JsonReadable(files[idx].raw)
  /\ rows' = Pushed(rows, extractFromPackageJson(files[idx].raw.value, files[idx].path))
  /\ idx' = NextFile(idx)
  /\ UNCHANGED <<files, skipped, out, pc>>

\* SkipFile leaving the loop: the failure ends the scan of the files
SkipFile_Abort ==
  /\ pc = "scan"
  /\ idx <= Len(files)
  /\ Throws(files[idx])
  /\ skipped' = Append(skipped, files[idx].path)
  /\ idx' = Len(files) + 1
  /\ UNCHANGED <<files, rows, out, pc>>

\* the catch clause: the file is logged and the loop goes on
SkipFile ==
  /\ pc = "scan"
  /\ idx <= Len(files)
  /\ Throws(files[idx])
  /\ skipped' = Append(skipped, files[idx].path)
  /\ idx' = NextFile(idx)
  /\ UNCHANGED <<files, rows, out, pc>>

\* after the loop: rows.sort(...), then printMarkdownTable(dedupeRows(rows));
\* out is the sequence handed to printMarkdownTable
Report ==
  /\ pc = "scan"
  /\ idx > Len(files)
  /\ rows' = sortRows(rows)
  /\ out' = dedupeRows(sortRows(rows))
  /\ pc' = "done"
  /\ UNCHANGED <<files, idx, skipped>>

\* a dedupeRows call on its own, as the aggregation performs it
DedupeCall ==
  /\ pc = "scan"
  /\ out' = dedupeRows(rows)
  /\ pc' = "deduped"
  /\ UNCHANGED <<files, idx, rows, skipped>>

(***************************************************************************)
(* Inputs.                                                                 *)
(***************************************************************************)
SeqsUpTo(S, n) == UNION {[1..m -> S] : m \in 0..n}

Keys(kv) == {kv[i].k : i \in 1..Len(kv)}

K_name == <<"n","a","m","e">>

K_version == <<"v","e","r","s","i","o","n">>

K_dev == <<"d","e","v">>

K_optional == <<"o","p","t","i","o","n","a","l">>

K_packages == <<"p","a","c","k","a","g","e","s">>

K_dependencies == <<"d","e","p","e","n","d","e","n","c","i","e","s">>

K_devDependencies == <<"d","e","v","D","e","p","e","n","d","e","n","c","i","e","s">>

K_optionalDependencies == <<"o","p","t","i","o","n","a","l","D","e","p","e","n","d","e","n","c","i","e","s">>

\* names met in the inputs: two targets, one scoped target, one that is no target
N_is == <<"i","s">>

N_synckit == <<"s","y","n","c","k","i","t">>

N_pkgr == <<"@","p","k","g","r","/","c","o","r","e">>

N_a == <<"a">>

\* --- npm lockfiles ---
NpmKeys ==
  { <<>>,
    <<"n","o","d","e","_","m","o","d","u","l","e","s","/","i","s">>,
    <<"n","o","d","e","_","m","o","d","u","l","e","s","/","a","/","n","o","d","e","_","m","o","d","u","l","e","s","/","@","p","k","g","r","/","c","o","r","e">>,
    <<"n","o","d","e","_","m","o","d","u","l","e","s","/","i","s","/","n","o","d","e","_","m","o","d","u","l","e","s","/">>,
    <<"n","o","d","e","_","m","o","d","u","l","e","s","/","s","y","n","c","k","i","t","/">>,
    <<"n","o","d","e","_","m","o","d","u","l","e","s","/","a">> }

NpmInfos ==
  { Null,
    Num(0),
    Obj(<<KV(K_version, Str(<<"3",".","3",".","0">>))>>),
    Obj(<<KV(K_name, Str(N_is)), KV(K_version, Str(<<"2",".","0",".","0">>)), KV(K_dev, Bool(TRUE))>>),
    Obj(<<KV(K_name, Str(N_a)), KV(K_version, Str(<<"1",".","0",".","0">>))>>),
    Obj(<<KV(K_name, Str(<<>>)), KV(K_version, Str(<<"1",".","0",".","0">>)), KV(K_optional, Bool(TRUE))>>) }

\* `packages` mappings of at most n entries with distinct keys
NpmPacks(n) ==
  {kv \in SeqsUpTo({KV(k, v) : k \in NpmKeys, v \in NpmInfos}, n) :
     \A i, j \in 1..Len(kv) : i # j => kv[i].k # kv[j].k}

NpmDepNames == {N_is, N_a}

NpmLeaves ==
  { Null,
    Bool(FALSE),
    Str(<<>>),
    Obj(<<KV(K_version, Str(<<"1",".","0",".","0">>))>>),
    Obj(<<KV(K_version, Str(<<"2",".","0",".","0">>)), KV(K_dev, Bool(TRUE)), KV(K_optional, Bool(TRUE))>>) }

RECURSIVE NpmForest(_), NpmNode(_)
\* `dependencies` mappings of exactly n nodes in all, with distinct names per mapping
NpmForest(n) ==
  IF n = 0 THEN {<<>>}
  ELSE UNION {{<<KV(c[1], meta)>> \o rest :
                 meta \in NpmNode(c[2]),
                 rest \in {f \in NpmForest(n - c[2]) : c[1] \notin Keys(f)}}
              : c \in NpmDepNames \X (1..n)}

\* the metadata of a node whose subtree holds exactly k nodes, itself included
NpmNode(k) ==
  IF k = 1 THEN NpmLeaves
  ELSE {Obj(<<KV(K_version, Str(<<"1",".","0",".","0">>)), KV(K_dependencies, Obj(f))>>) : f \in NpmForest(k - 1)}

NpmForestsUpTo(n) == UNION {NpmForest(m) : m \in 0..n}

NpmDocs ==
  {Obj(<<KV(K_packages, Obj(p))>>) : p \in NpmPacks(MaxPkgEntries)}
    \cup {Obj(<<KV(K_dependencies, Obj(f))>>) : f \in NpmForestsUpTo(MaxNodes)}
    \cup {Obj(<<KV(K_packages, Obj(p)), KV(K_dependencies, Obj(f))>>) :
            p \in NpmPacks(1), f \in NpmForestsUpTo(2)}
    \cup { Null,
           Obj(<<KV(K_packages, Str(<<"x">>))>>),
           Obj(<<KV(K_packages, Null), KV(K_dependencies, Num(5))>>) }

\* --- yarn.lock texts ---
YarnSelectors ==
  { <<"i","s","@","^","3",".","0",".","0">>, <<"@","p","k","g","r","/","c","o","r","e","@","^","1",".","0",".","0">>, <<"@","i","n","v","a","l","i","d">>, <<"s","y","n","c","k","i","t">>, <<"a","@","1",".","0",".","0">> }

YarnQuoted == YarnSelectors \cup {<<"\"">> \o sel \o <<"\"">> : sel \in YarnSelectors}

RECURSIVE JoinSeq(_, _)
JoinSeq(ss, sep) ==
  IF Len(ss) = 0 THEN <<>>
  ELSE IF Len(ss) = 1 THEN ss[1]
  ELSE ss[1] \o sep \o JoinSeq(Tail(ss), sep)

YarnHeaders(n) ==
  {JoinSeq(ss, <<","," ">>) \o <<":">> : ss \in SeqsUpTo(YarnQuoted, n) \ {<<>>}}

YarnBodies == { <<"\n"," "," ","v","e","r","s","i","o","n"," ","\"","1",".","2",".","3","\"","\n"," "," ","r","e","s","o","l","v","e","d"," ","\"","u","\"","\n">>, <<"\n"," "," ","r","e","s","o","l","v","e","d"," ","\"","u","\"","\n">> }

YarnBlocks(n) == {h \o b : h \in YarnHeaders(n), b \in YarnBodies}

YarnTexts ==
  YarnBlocks(MaxSelectors)
    \cup {<<"#"," ","y","a","r","n"," ","l","o","c","k","f","i","l","e"," ","v","1","\n","\n","\n">> \o b : b \in YarnBlocks(MaxSelectors)}
    \cup {b1 \o <<"\n">> \o b2 : b1, b2 \in YarnBlocks(1)}

\* --- package.json documents ---
PkgDocs ==
  { Obj(<<KV(K_devDependencies, Obj(<<KV(N_synckit, Str(<<"^","0",".","1","0",".","0">>))>>))>>),
    Obj(<<KV(K_dependencies, Obj(<<KV(N_is, Str(<<"^","3",".","0",".","0">>)), KV(N_a, Str(<<"1",".","0",".","0">>))>>)),
          KV(K_devDependencies, Obj(<<KV(N_is, Str(<<"^","3",".","0",".","0">>))>>))>>),
    Obj(<<KV(K_dependencies, Obj(<<KV(N_pkgr, Null)>>)),
          KV(K_optionalDependencies, Obj(<<KV(N_pkgr, Str(<<>>))>>))>>),
    Obj(<<KV(K_dependencies, Str(<<"x">>)), KV(K_devDependencies, Obj(<<KV(N_a, Num(1))>>))>>) }

\* --- the candidate files of a scan ---
Dirs == { <<"/","r">>, <<"/","r","/","b">> }

MainNpmDocs ==
  { Obj(<<KV(K_packages, Obj(<<KV(<<"n","o","d","e","_","m","o","d","u","l","e","s","/","i","s">>, Obj(<<KV(K_version, Str(<<"3",".","3",".","0">>))>>))>>))>>),
    Obj(<<KV(K_dependencies,
             Obj(<<KV(N_a, Obj(<<KV(K_version, Str(<<"1",".","0",".","0">>)),
                                 KV(K_dependencies,
                                    Obj(<<KV(N_is, Obj(<<KV(K_version, Str(<<"2",".","0",".","0">>))>>))>>))>>)),
                   KV(N_is, Obj(<<KV(K_version, Str(<<"3",".","3",".","0">>)), KV(K_dev, Bool(TRUE))>>))>>))>>),
    Obj(<<KV(K_packages, Obj(<<KV(<<"n","o","d","e","_","m","o","d","u","l","e","s","/","i","s">>, Obj(<<KV(K_version, Str(<<"3",".","3",".","0">>))>>)),
                               KV(<<"n","o","d","e","_","m","o","d","u","l","e","s","/","a">>, Null)>>)),
          KV(K_dependencies, Obj(<<KV(N_is, Obj(<<KV(K_version, Str(<<"3",".","3",".","0">>))>>))>>))>>) }

MainYarnTexts ==
  { <<"\"","@","p","k","g","r","/","c","o","r","e","@","^","1",".","0",".","0","\"",":","\n"," "," ","v","e","r","s","i","o","n"," ","\"","1",".","2",".","3","\"","\n">>,
    <<"#"," ","y","a","r","n"," ","l","o","c","k","f","i","l","e"," ","v","1","\n","\n","\n","i","s","@","^","3",".","0",".","0",","," ","a","@","1",".","0",".","0",","," ","s","y","n","c","k","i","t","@","^","0",".","1","1",".","0",":","\n"," "," ","v","e","r","s","i","o","n"," ","\"","3",".","0",".","3","\"","\n","\n","@","i","n","v","a","l","i","d",":","\n"," "," ","v","e","r","s","i","o","n"," ","\"","1",".","0",".","0","\"","\n">> }

Candidates ==
  {File(PathJoin(d, LOCK_FILENAMES[1]), r) :
     d \in Dirs, r \in {RawJson(v) : v \in MainNpmDocs} \cup {RawGarbage}}
    \cup {File(PathJoin(<<"/","r">>, LOCK_FILENAMES[2]), r) :
            r \in {RawJson(v) : v \in MainNpmDocs} \cup {RawUnreadable}}
    \cup {File(PathJoin(d, LOCK_FILENAMES[3]), r) :
            d \in Dirs, r \in {RawText(t) : t \in MainYarnTexts} \cup {RawUnreadable}}
    \cup {File(PathJoin(d, LOCK_FILENAMES[4]), r) :
            d \in Dirs, r \in {RawJson(v) : v \in PkgDocs} \cup {RawGarbage}}

\* --- rows handed to the aggregation on its own ---
AggRows ==
  { Row(N_is, <<"1">>, FALSE, FALSE, NPM_LOCK, <<"/","r">>),
    Row(N_is, <<"2">>, FALSE, FALSE, NPM_LOCK, <<"/","r">>),
    Row(N_is, <<"1">>, TRUE, FALSE, NPM_LOCK, <<"/","r">>),
    Row(N_is, <<"1">>, FALSE, TRUE, NPM_LOCK, <<"/","r">>),
    Row(N_is, <<"1">>, FALSE, FALSE, NPM_LOCK, <<"/","s">>),
    Row(N_synckit, <<"1">>, FALSE, FALSE, YARN_LOCK, <<"/","r">>),
    Row(N_synckit, <<"1">>, FALSE, FALSE, YARN_LOCK, <<"/","s">>) }

\* --- rows handed to dedupeRows on its own: any strings, `::` included ---
DedupeRowsInputs ==
  {Row(c[1], c[2], c[3][1], c[3][2], NPM_LOCK, c[4]) :
     c \in {d \in {N_is, <<"i","s",":",":","i","s">>} \X {<<"1">>, <<"2">>}
                   \X {<<FALSE, FALSE>>, <<TRUE, FALSE>>, <<FALSE, TRUE>>}
                   \X {<<"/","r">>, <<"/","r",":",":","i","s">>} :
              d[2] = <<"1">> \/ d[3] = <<FALSE, FALSE>>}}

(***************************************************************************)
(* Specifications.                                                         *)
(***************************************************************************)
Start(fs, rs) ==
  /\ files = fs
  /\ idx = 1
  /\ rows = rs
  /\ skipped = <<>>
  /\ out = <<>>
  /\ pc = "scan"

\* main after collectFiles: the candidate files, each path once
Init ==
  \E fs \in SeqsUpTo(Candidates, MaxFiles) :
    /\ \A i, j \in 1..Len(fs) : i # j => fs[i].path # fs[j].path
    /\ Start(fs, <<>>)

Next == ReadNpmLock \/ ReadYarnLock \/ ReadPackageJson \/ SkipFile \/ Report

Spec == Init /\ [][Next]_vars

\* extractFromNpmLock on one decoded lockfile
InitNpm ==
  \E doc \in NpmDocs : Start(<<File(PathJoin(<<"/","r">>, LOCK_FILENAMES[1]), RawJson(doc))>>, <<>>)

SpecNpm == InitNpm /\ [][ReadNpmLock]_vars

\* extractFromYarnLockV1 on one lockfile text
InitYarn ==
  \E text \in YarnTexts : Start(<<File(PathJoin(<<"/","r">>, LOCK_FILENAMES[3]), RawText(text))>>, <<>>)

SpecYarn == InitYarn /\ [][ReadYarnLock]_vars

\* the aggregation on any sequence of rows
InitAgg == \E rs \in SeqsUpTo(AggRows, MaxRows) : Start(<<>>, rs)

SpecAgg == InitAgg /\ [][Report]_vars

\* dedupeRows on any sequence of rows
InitDedupe == \E rs \in SeqsUpTo(DedupeRowsInputs, MaxRows) : Start(<<>>, rs)

SpecDedupe == InitDedupe /\ [][DedupeCall]_vars

(***************************************************************************)
(* Vocabulary of the properties.                                           *)
(***************************************************************************)
Range(seq) == {seq[i] : i \in 1..Len(seq)}

Count(seq, r) == Cardinality({i \in 1..Len(seq) : seq[i] = r})

SameBag(s1, s2) ==
  /\ Len(s1) = Len(s2)
  /\ \A r \in Range(s1) \cup Range(s2) : Count(s1, r) = Count(s2, r)

\* the elements of seq at the positions of the set I, in order
Pick(seq, I) ==
  [k \in 1..Cardinality(I) |-> seq[CHOOSE i \in I : Cardinality({j \in I : j <= i}) = k]]

Tuple4(r) == <<r.lockfilePath, r.package, r.version, r.source>>

\* two distinct records with one 4-tuple: they differ in dev or optional only
FlagsOnly(r1, r2) == Tuple4(r1) = Tuple4(r2) /\ r1 # r2

\* a is not greater than b in the collation order, stated without recursion
CollatesLeq(a, b) ==
  LET diff == {i \in 1..Len(a) : i > Len(b) \/ a[i] # b[i]}
      d    == CHOOSE i \in diff : \A j \in diff : i <= j
  IN  \/ diff = {}
      \/ d <= Len(b) /\ CollationWeight(a[d]) < CollationWeight(b[d])

\* the permutations of 1..n
Perms(n) == {p \in [1..n -> 1..n] : \A i, j \in 1..n : i # j => p[i] # p[j]}

Permuted(seq, p) == [i \in 1..Len(seq) |-> seq[p[i]]]

\* what one readable file contributes
Extracted(f) ==
  IF IsNpmLockPath(f.path) THEN extractFromNpmLock(f.raw.value, f.path)
  ELSE IF IsYarnLockPath(f.path) THEN extractFromYarnLockV1(f.raw.text, f.path)
  ELSE extractFromPackageJson(f.raw.value, f.path)

RECURSIVE Collected(_)
\* the records of a list of readable files, file after file
Collected(fs) == IF fs = <<>> THEN <<>> ELSE Extracted(fs[1]) \o Collected(Tail(fs))

Readable(fs) == SelectSeq(fs, LAMBDA f : ~Throws(f))

Unreadable(fs) == SelectSeq(fs, LAMBDA f : Throws(f))

Paths(fs) == [i \in 1..Len(fs) |-> fs[i].path]

Packages(rs) == [i \in 1..Len(rs) |-> rs[i].package]

\* the one lockfile of SpecNpm and SpecYarn, once parsed
Parsed == Len(files) = 1 /\ idx = 2

TheDoc == files[1].raw.value

TheText == files[1].raw.text

ThePath == files[1].path

(***************************************************************************)
(* C1: every record a parser returns names a member of TARGETS, so no row  *)
(* collected during the scan, and no row of the final report, names a      *)
(* package outside TARGETS.                                                *)
(***************************************************************************)
C1_OnlyTargets ==
  /\ \A i \in 1..Len(rows) : rows[i].package \in TARGETS
  /\ \A i \in 1..Len(out) : out[i].package \in TARGETS

\* a package.json and a yarn.lock that both mention the non-target `a` were reported
C1_Witness ==
  /\ pc = "done"
  /\ Len(files) = 2
  /\ IsPackageJsonPath(files[1].path) /\ JsonReadable(files[1].raw)
  /\ N_a \in Keys(Entries(Get(files[1].raw.value, K_dependencies)))
  /\ IsYarnLockPath(files[2].path) /\ TextReadable(files[2].raw)
  /\ FirstIndexOf(files[2].raw.text, <<"a","@","1",".","0",".","0">>) > 0
  /\ Len(out) >= 3

(***************************************************************************)
(* C2 as stated: two records handed to dedupeRows with the same            *)
(* lockfilePath, package, version and source that differ only in dev (or   *)
(* only in optional) are both retained in its output.                      *)
(***************************************************************************)
C2_BothRetained ==
  pc = "done" =>
    \A i, j \in 1..Len(rows) :
      i < j /\ FlagsOnly(rows[i], rows[j]) => rows[i] \in Range(out) /\ rows[j] \in Range(out)

(***************************************************************************)
(* C2 amended: of the records handed to dedupeRows that share one          *)
(* (lockfilePath, package, version, source) and differ only in dev or      *)
(* optional, the output retains at most one, and it is the first of them   *)
(* in input order; the later ones are dropped.                             *)
(***************************************************************************)
C2_FirstOfFlagVariants ==
  pc = "done" =>
    \A i, j \in 1..Len(rows) :
      i < j /\ FlagsOnly(rows[i], rows[j]) =>
        LET same  == {k \in 1..Len(rows) : Tuple4(rows[k]) = Tuple4(rows[j])}
            first == CHOOSE k \in same : \A m \in same : k <= m
        IN  /\ Cardinality({k \in 1..Len(out) : Tuple4(out[k]) = Tuple4(rows[j])}) <= 1
            /\ \A k \in 1..Len(out) : Tuple4(out[k]) = Tuple4(rows[j]) => out[k] = rows[first]

\* a package.json listing `is` with one range under dependencies and devDependencies
C2_Witness ==
  /\ pc = "done"
  /\ \E i, j \in 1..Len(rows) :
       /\ i < j /\ FlagsOnly(rows[i], rows[j])
       /\ rows[i].dev # rows[j].dev
       /\ rows[i] \in Range(out)
       /\ rows[j] \notin Range(out)

(***************************************************************************)
(* C3 as stated: the output of the aggregation is the same for every       *)
(* permutation of its input records.                                       *)
(***************************************************************************)
C3_AnyPermutation ==
  [][Report => \A p \in Perms(Len(rows)) : dedupeRows(sortRows(Permuted(rows, p))) = out']_vars

\* the permutation p keeps the relative order of the records the comparator ties
KeepsTies(seq, p) ==
  \A i, j \in 1..Len(seq) :
    i < j /\ seq[i].package = seq[j].package /\ seq[i].lockfilePath = seq[j].lockfilePath =>
    (CHOOSE k \in 1..Len(seq) : p[k] = i) < (CHOOSE k \in 1..Len(seq) : p[k] = j)

(***************************************************************************)
(* C3 amended: the output of the aggregation is the same for every         *)
(* permutation of its input records that keeps the relative order of the   *)
(* records with the same package and lockfilePath (the records one file    *)
(* contributes for one package), as when the same files are parsed in a    *)
(* different order.                                                        *)
(***************************************************************************)
C3_TiePreservingPermutation ==
  [][Report => \A p \in Perms(Len(rows)) :
                 KeepsTies(rows, p) => dedupeRows(sortRows(Permuted(rows, p))) = out']_vars

\* three records were aggregated, two of them tied on package and path with
\* different versions, and all three survive
C3_Witness ==
  /\ pc = "done"
  /\ Len(rows) = 3 /\ Len(out) = 3
  /\ \E i, j \in 1..3 :
       /\ i # j
       /\ rows[i].package = rows[j].package /\ rows[i].lockfilePath = rows[j].lockfilePath
       /\ rows[i].version # rows[j].version
  /\ \E i, j \in 1..3 : rows[i].package # rows[j].package

(***************************************************************************)
(* C4: the sequence handed to the renderer is ordered by package, and by   *)
(* lockfilePath among equal packages: each record is not greater than the  *)
(* next; the deduplication that follows the sort keeps this order.         *)
(***************************************************************************)
C4_OutputOrdered ==
  pc = "done" =>
    \A k \in 1..(Len(out) - 1) :
      /\ CollatesLeq(out[k].package, out[k + 1].package)
      /\ out[k].package = out[k + 1].package =>
           CollatesLeq(out[k].lockfilePath, out[k + 1].lockfilePath)

\* a report of several packages and several paths from which duplicates were dropped
C4_Witness ==
  /\ pc = "done"
  /\ Len(out) >= 3
  /\ Len(out) < Len(rows)
  /\ Cardinality({out[k].package : k \in 1..Len(out)}) >= 2
  /\ \E k \in 1..(Len(out) - 1) :
       out[k].package = out[k + 1].package /\ out[k].lockfilePath # out[k + 1].lockfilePath

(***************************************************************************)
(* C5: a file whose read or JSON decoding fails contributes no record, the *)
(* loop goes on to every remaining file, and the records collected are     *)
(* those collected from the list without the failing files.                *)
(***************************************************************************)
C5_FailureIsolated ==
  /\ pc = "scan" =>
       /\ idx <= Len(files) + 1
       /\ rows = Collected(Readable(SubSeq(files, 1, idx - 1)))
       /\ skipped = Paths(Unreadable(SubSeq(files, 1, idx - 1)))
  /\ pc = "done" =>
       /\ idx = Len(files) + 1
       /\ skipped = Paths(Unreadable(files))
       /\ rows = sortRows(Collected(Readable(files)))

\* the first of two files failed, the second was parsed and reported
C5_Witness ==
  /\ pc = "done"
  /\ Len(files) = 2
  /\ Throws(files[1])
  /\ ~Throws(files[2])
  /\ skipped = <<files[1].path>>
  /\ out # <<>>

(***************************************************************************)
(* C6: the package name of a Yarn v1 selector is the text before its last  *)
(* `@`, wrapping quotes stripped; a selector with no `@`, or whose last    *)
(* `@` is its first character, yields no record.                           *)
(***************************************************************************)
\* the selector without the double quotes that wrap it
Unquoted(sel) ==
  LET inner == {i \in 1..Len(sel) : sel[i] # "\""}
  IN  IF inner = {} THEN <<>>
      ELSE SubSeq(sel, CHOOSE i \in inner : \A j \in inner : i <= j,
                       CHOOSE i \in inner : \A j \in inner : i >= j)

\* the names n with  n @ rest = selector,  n not empty and no `@` in rest
NamesBeforeLastAt(sel) ==
  LET s == Unquoted(sel)
  IN  {SubSeq(s, 1, k - 1) : k \in {k \in 2..Len(s) : s[k] = "@" /\ \A m \in (k + 1)..Len(s) : s[m] # "@"}}

\* the headers of the blocks of a lockfile text that are no comment
BlockHeaders(text) ==
  LET blocks  == SelectSeq(TrimAll(SplitBlankLines(text)), LAMBDA b : b # <<>>)
      headers == [i \in 1..Len(blocks) |-> Trim(Split(blocks[i], <<"\n">>)[1])]
  IN  SelectSeq(headers, LAMBDA h : ~StartsWith(h, <<"#">>))

RECURSIVE Flatten(_)
Flatten(ss) == IF ss = <<>> THEN <<>> ELSE ss[1] \o Flatten(Tail(ss))

\* every selector of every header of the text, in order
AllSelectors(text) ==
  LET hs == BlockHeaders(text) IN Flatten([i \in 1..Len(hs) |-> HeaderSelectors(hs[i])])

\* the target names derived from the selectors, one per valid selector that names a target
ExpectedYarnPackages(text) ==
  LET sels  == AllSelectors(text)
      emits == {i \in 1..Len(sels) : NamesBeforeLastAt(sels[i]) \cap TARGETS # {}}
      hits  == Pick(sels, emits)
  IN  [i \in 1..Len(hits) |-> CHOOSE n \in NamesBeforeLastAt(hits[i]) : TRUE]

C6_NameBeforeLastAt == Parsed => Packages(rows) = ExpectedYarnPackages(TheText)

\* the header  "@pkgr/core@^1.0.0", @invalid:  gave one record, for @pkgr/core
C6_Witness ==
  /\ Parsed
  /\ BlockHeaders(TheText) = << <<"\"","@","p","k","g","r","/","c","o","r","e","@","^","1",".","0",".","0","\"",","," ","@","i","n","v","a","l","i","d",":">> >>
  /\ Packages(rows) = <<N_pkgr>>
  /\ rows[1].version = <<"1",".","2",".","3">>

(***************************************************************************)
(* Vocabulary of the npm lockfile properties.                              *)
(***************************************************************************)
NodeModules == <<"n","o","d","e","_","m","o","d","u","l","e","s","/">>

RECURSIVE WithoutTrailing(_, _)
\* s without the copies of sep it ends with
WithoutTrailing(s, sep) ==
  IF EndsWith(s, sep) THEN WithoutTrailing(SubSeq(s, 1, Len(s) - Len(sep)), sep) ELSE s

\* the last non-empty piece between the occurrences of node_modules/ in the key, read
\* from the right, without one trailing slash; the empty string when there is none
LastPiece(key) ==
  LET k     == WithoutTrailing(key, NodeModules)
      ends  == {i \in Len(NodeModules)..Len(k) :
                  SubSeq(k, i - Len(NodeModules) + 1, i) = NodeModules}
      from  == IF ends = {} THEN 0 ELSE CHOOSE i \in ends : \A j \in ends : i >= j
      piece == SubSeq(k, from + 1, Len(k))
  IN  IF piece # <<>> /\ piece[Len(piece)] = "/" THEN SubSeq(piece, 1, Len(piece) - 1) ELSE piece

\* the name an entry of `packages` is matched by: its declared name when it has one
\* (a value that is not empty), else the last piece of its key
MatchName(entry) ==
  LET declared == IF entry.v.t = "obj" THEN Get(entry.v, K_name) ELSE Undef
  IN  IF declared.t = "str" /\ declared.s # <<>> THEN declared.s ELSE LastPiece(entry.k)

\* the `packages` entries of a lockfile, none when the field is no mapping
PackagesEntries(doc) ==
  IF doc.t = "obj" /\ Get(doc, K_packages).t = "obj" THEN Get(doc, K_packages).kv ELSE <<>>

\* the top `dependencies` entries of a lockfile, none when the field is no mapping
DependenciesEntries(doc) ==
  IF doc.t = "obj" /\ Get(doc, K_dependencies).t = "obj" THEN Get(doc, K_dependencies).kv ELSE <<>>

\* the positions of the `packages` entries whose match name is a target
Matching(doc) ==
  {i \in 1..Len(PackagesEntries(doc)) : MatchName(PackagesEntries(doc)[i]) \in TARGETS}

Falsy(v) == v \in {Null, Undef, Bool(FALSE), Num(0), Str(<<>>)}

\* the record of one node of the tree, from its own fields
NodeRow(name, meta, lockfilePath) ==
  [package      |-> name,
   version      |-> IF meta.t = "obj" /\ Get(meta, K_version).t = "str"
                    THEN Get(meta, K_version).s ELSE <<>>,
   dev          |-> meta.t = "obj" /\ Get(meta, K_dev) = Bool(TRUE),
   optional     |-> meta.t = "obj" /\ Get(meta, K_optional) = Bool(TRUE),
   source       |-> NPM_LOCK,
   lockfilePath |-> lockfilePath]

RECURSIVE TreeRows(_, _)
\* one record per node of the tree, at any depth, with a target name and metadata
\* that is not falsy: the nodes in preorder
TreeRows(entries, lockfilePath) ==
  IF entries = <<>> THEN <<>>
  ELSE LET name == entries[1].k
           meta == entries[1].v
           here == IF ~Falsy(meta) /\ name \in TARGETS
                   THEN <<NodeRow(name, meta, lockfilePath)>> ELSE <<>>
           below == IF meta.t = "obj" /\ Get(meta, K_dependencies).t = "obj"
                    THEN TreeRows(Get(meta, K_dependencies).kv, lockfilePath) ELSE <<>>
       IN  here \o below \o TreeRows(Tail(entries), lockfilePath)

\* the nesting depth of a tree
RECURSIVE Depth(_)
Depth(entries) ==
  IF entries = <<>> THEN 0
  ELSE LET meta  == entries[1].v
           below == IF meta.t = "obj" /\ Get(meta, K_dependencies).t = "obj"
                    THEN 1 + Depth(Get(meta, K_dependencies).kv) ELSE 1
           rest  == Depth(Tail(entries))
       IN  IF below > rest THEN below ELSE rest

\* the lockfile with its `packages` only, and with its `dependencies` only
OnlyField(doc, field) ==
  IF doc.t = "obj" THEN Obj(SelectSeq(doc.kv, LAMBDA e : e.k = field)) ELSE doc

(***************************************************************************)
(* C7 as stated: no entry of `packages` and no entry of a `dependencies`   *)
(* mapping whose value is falsy gives a record: all the records come from  *)
(* the entries and nodes with truthy metadata.                             *)
(***************************************************************************)
C7_FalsySkippedEverywhere ==
  Parsed =>
    Len(rows) = Cardinality({i \in Matching(TheDoc) : ~Falsy(PackagesEntries(TheDoc)[i].v)})
                  + Len(TreeRows(DependenciesEntries(TheDoc), ThePath))

(***************************************************************************)
(* C7 amended: an entry of a `dependencies` mapping whose value is falsy   *)
(* gives no record, at any depth; an entry of `packages` whose value is    *)
(* falsy is read as empty metadata, and gives a record with an empty       *)
(* version and both flags false when the name derived from its key is a    *)
(* target.                                                                 *)
(***************************************************************************)
C7_FalsySkippedInDependencies ==
  Parsed =>
    LET entries  == PackagesEntries(TheDoc)
        emitting == Pick(entries, Matching(TheDoc))
    IN  /\ Len(rows) = Len(emitting) + Len(TreeRows(DependenciesEntries(TheDoc), ThePath))
        /\ \A k \in 1..Len(emitting) :
             Falsy(emitting[k].v) =>
               rows[k] = Row(LastPiece(emitting[k].k), <<>>, FALSE, FALSE, NPM_LOCK, ThePath)

\* {"packages": {"node_modules/is": null}, "dependencies": {"is": null}} gave one record
C7_Witness ==
  /\ Parsed
  /\ TheDoc = Obj(<<KV(K_packages, Obj(<<KV(<<"n","o","d","e","_","m","o","d","u","l","e","s","/","i","s">>, Null)>>)),
                    KV(K_dependencies, Obj(<<KV(N_is, Null)>>))>>)
  /\ rows = <<Row(N_is, <<>>, FALSE, FALSE, NPM_LOCK, ThePath)>>

(***************************************************************************)
(* C8: the walk of a `dependencies` tree gives one record, with the node's *)
(* version, dev and optional, for each node at any depth whose name is a   *)
(* target and whose metadata is truthy, whether or not the lockfile also   *)
(* has a `packages` mapping.                                               *)
(***************************************************************************)
C8_WholeTreeVisited ==
  Parsed =>
    LET fromPackages == extractFromNpmLock(OnlyField(TheDoc, K_packages), ThePath)
    IN  /\ Len(rows) >= Len(fromPackages)
        /\ SubSeq(rows, 1, Len(fromPackages)) = fromPackages
        /\ SameBag(Drop(rows, Len(fromPackages)),
                   TreeRows(DependenciesEntries(TheDoc), ThePath))

\* a lockfile with a `packages` mapping and `is` nested under `a` gave both records
C8_Witness ==
  /\ Parsed
  /\ Matching(TheDoc) # {}
  /\ Depth(DependenciesEntries(TheDoc)) = 2
  /\ DependenciesEntries(TheDoc)[1].k = N_a
  /\ Len(TreeRows(DependenciesEntries(TheDoc), ThePath)) = 1
  /\ Len(rows) = 2
  /\ rows[2].version = <<"2",".","0",".","0">> /\ rows[2].dev /\ rows[2].optional

(***************************************************************************)
(* C9: an entry of `packages` is matched by its declared name when it has  *)
(* one, else by the last non-empty piece of its key split on               *)
(* node_modules/, one trailing slash removed; a key without such a piece   *)
(* and without a declared name gives no record.                            *)
(***************************************************************************)
C9_PackagesEntryName ==
  Parsed =>
    LET emitting == Pick(PackagesEntries(TheDoc), Matching(TheDoc))
    IN  /\ Len(rows) >= Len(emitting)
        /\ SubSeq(Packages(rows), 1, Len(emitting)) = [k \in 1..Len(emitting) |-> MatchName(emitting[k])]
        /\ Drop(rows, Len(emitting)) = extractFromNpmLock(OnlyField(TheDoc, K_dependencies), ThePath)

\* the keys "" and node_modules/a/node_modules/@pkgr/core, no declared names: one record
C9_Witness ==
  /\ Parsed
  /\ PackagesEntries(TheDoc) =
       << KV(<<>>, Obj(<<KV(K_version, Str(<<"3",".","3",".","0">>))>>)),
          KV(<<"n","o","d","e","_","m","o","d","u","l","e","s","/","a","/","n","o","d","e","_","m","o","d","u","l","e","s","/","@","p","k","g","r","/","c","o","r","e">>, Obj(<<KV(K_version, Str(<<"3",".","3",".","0">>))>>)) >>
  /\ rows = <<Row(N_pkgr, <<"3",".","3",".","0">>, FALSE, FALSE, NPM_LOCK, ThePath)>>

(***************************************************************************)
(* C10: the output of dedupeRows holds one record per distinct             *)
(* (lockfilePath, package, version, source) of its input, the first that   *)
(* carries it, in input order, whatever the strings hold; records with     *)
(* different 4-tuples are never collapsed.                                 *)
(***************************************************************************)
C10_OnePerTuple ==
  pc = "deduped" =>
    out = Pick(rows, {i \in 1..Len(rows) : \A j \in 1..(i - 1) : Tuple4(rows[j]) # Tuple4(rows[i])})

====
